---------------------------- MODULE Spec2Model ----------------------------
(***************************************************************************)
(* A model of sops (src/sops/__init__.py, Python 3 semantics): the tree    *)
(* walks that encrypt and decrypt the leaves of a document, the integrity  *)
(* digest, the IV stash of an edit session, and the data-key handling of   *)
(* get_key.                                                                *)
(*                                                                         *)
(* Representation.                                                         *)
(*  - A byte string / text is a sequence of atoms.  Ch("x") is one         *)
(*    character.  The text of an envelope "ENC[AES256_GCM,data:..,iv:..,   *)
(*    tag:..,type:..]" is one atom Env(data, iv, tag, type) whose fields   *)
(*    are base64 texts.                                                    *)
(*  - A base64 text is [raw, junk]: raw is what b64decode returns, junk    *)
(*    says that the text also holds characters outside the alphabet, which *)
(*    b64decode (validate=False) discards.                                 *)
(*  - AES-GCM is symbolic: a ciphertext names its key, IV and plaintext, a *)
(*    tag names key, IV, AAD and ciphertext; opening succeeds only with    *)
(*    exactly the tag sealing produced.  The ciphertext of the empty       *)
(*    plaintext is the empty byte string.                                  *)
(*  - SHA-512 is symbolic: the digest is the byte sequence absorbed.       *)
(*  - os.urandom(32) returns an IV never returned before (a counter).      *)
(*  - Mapping keys, AAD and timestamps are strings; AAD is built with \o.  *)
(*  - Format versions are tenths: 9 is 0.9.                                *)
(***************************************************************************)
EXTENDS Integers, Sequences, FiniteSets, TLC

VARIABLES
    pc,        \* position in the run: plain, enc, tampered, dec, edited, reenc, key
    doc0,      \* the document the run started from
    tree,      \* the document as stored (what the next walk reads)
    key,       \* the data key handed to the walks
    ivctr,     \* number of IVs os.urandom has produced so far
    encRun,    \* ghost: what the first walk_and_encrypt did
    decRun,    \* ghost: what walk_and_decrypt did
    reRun,     \* ghost: what the second walk_and_encrypt (with stash) did
    flags,     \* ignoreMac / stash / tamper / edit choices of the run
    ring,      \* get_key: the sops.kms and sops.pgp lists and the providers' state
    keyRun,    \* get_key: its outcome
    main,      \* main(): its arguments, its exit, the files it wrote
    listRun    \* ghost: what walk_and_encrypt did after a list of the document grew

vars == <<pc, doc0, tree, key, ivctr, encRun, decRun, reRun, flags, ring, keyRun, main,
         listRun>>

----------------------------------------------------------------------------
(* Program constants *)

VERSION == 9

NOW(run) == IF run = "edit" THEN "T2" ELSE "T1"

----------------------------------------------------------------------------
(* Bytes, texts and the leaf cipher *)

Ch(s) == [c |-> s]

NoBytes == [nil |-> TRUE]

IvBytes(n) == [id |-> n]

\* base64.b64encode: the canonical text of a byte string
b64encode(x) == [raw |-> x, junk |-> FALSE]

\* base64.b64decode with validate=False: characters outside the alphabet are dropped
b64decode(t) == t.raw

\* whether a base64 text has at least one character (the regex groups are (.+))
TextNonEmpty(t) == t.junk \/ t.raw # NoBytes

\* Cipher(AES(key), GCM(iv)).encryptor(): update(value) + finalize()
GcmCt(k, iv, pt) == IF pt = <<>> THEN NoBytes ELSE [key |-> k, iv |-> iv, pt |-> pt]

\* encryptor.tag after authenticate_additional_data(aad)
GcmTag(k, iv, aad, ct) == [key |-> k, iv |-> iv, aad |-> aad, ct |-> ct]

\* Cipher(AES(key), GCM(iv, tag)).decryptor(): finalize() raises InvalidTag on a mismatch
GcmOpen(k, iv, tag, aad, ct) ==
    IF tag = GcmTag(k, iv, aad, ct)
    THEN [ok |-> TRUE, pt |-> IF ct = NoBytes THEN <<>> ELSE ct.pt]
    ELSE [ok |-> FALSE, pt |-> <<>>]

Env(data, iv, tag, type) == [c |-> "ENC", data |-> data, iv |-> iv, tag |-> tag, type |-> type]

IsEnvAtom(a) == a.c = "ENC"

----------------------------------------------------------------------------
(* Leaves and the value codec *)

\* a leaf value: ty is its Python type, v the characters / bytes of a str or
\* bytes, n the number of an int, a float (in tenths) or a bool (1 is True)
FloatLeaf(f) == [t |-> "leaf", ty |-> "float", v |-> <<>>, n |-> f]
StrLeaf(bs) == [t |-> "leaf", ty |-> "str", v |-> bs, n |-> 0]
IntLeaf(n) == [t |-> "leaf", ty |-> "int", v |-> <<>>, n |-> n]
BoolLeaf(b) == [t |-> "leaf", ty |-> "bool", v |-> <<>>, n |-> IF b THEN 1 ELSE 0]
BytesLeaf(bs) == [t |-> "leaf", ty |-> "bytes", v |-> bs, n |-> 0]
Map(items) == [t |-> "map", items |-> items]
List(items) == [t |-> "list", items |-> items]
KV(k, v) == [k |-> k, v |-> v]

RECURSIVE DecStr(_)
\* str(n) of an int: decimal ASCII
DecStr(n) ==
    IF n < 0 THEN <<Ch("-")>> \o DecStr(-n)
    ELSE IF n < 10 THEN <<Ch(ToString(n))>>
    ELSE DecStr(n \div 10) \o <<Ch(ToString(n % 10))>>

\* str(f) of a float; the model's floats are tenths (35 is 3.5) and not negative
FloatStr(f) == DecStr(f \div 10) \o <<Ch(".")>> \o DecStr(f % 10)

\* str(b) of a bool
BoolStr(b) == IF b THEN <<Ch("T"), Ch("r"), Ch("u"), Ch("e")>>
              ELSE <<Ch("F"), Ch("a"), Ch("l"), Ch("s"), Ch("e")>>

\* bytes.lower()
LowerCh(a) == IF a.c = "T" THEN Ch("t") ELSE IF a.c = "F" THEN Ch("f") ELSE a
Lower(bs) == [i \in 1..Len(bs) |-> LowerCh(bs[i])]

\* the isinstance chain of encrypt: str, bool, int, float, else bytes
ValType(leaf) ==
    IF leaf.ty = "str" THEN "str"
    ELSE IF leaf.ty = "bool" THEN "bool"
    ELSE IF leaf.ty = "int" THEN "int"
    ELSE IF leaf.ty = "float" THEN "float"
    ELSE "bytes"

\* value = str(value).encode('utf-8') unless value is bytes already
ToBytes(leaf) ==
    IF leaf.ty = "bytes" THEN leaf.v
    ELSE IF leaf.ty = "str" THEN leaf.v
    ELSE IF leaf.ty = "bool" THEN BoolStr(leaf.n = 1)
    ELSE IF leaf.ty = "float" THEN FloatStr(leaf.n)
    ELSE DecStr(leaf.n)

\* bytes.decode('utf-8') succeeds
Utf8Valid(bs) == \A i \in 1..Len(bs) : bs[i].c # "xFF"

MaxInt == 20

IntDomain == -1..MaxInt

\* int(text): the int whose decimal form the text is, or ValueError
IntParses(bs) == \E n \in IntDomain : DecStr(n) = bs
ParseInt(bs) == CHOOSE n \in IntDomain : DecStr(n) = bs

FloatDomain == 0..(10 * MaxInt)

\* float(text): accepts the decimal form of a float and of an int, else ValueError
FloatParses(bs) == IntParses(bs) \/ \E f \in FloatDomain : FloatStr(f) = bs
ParseFloat(bs) ==
    IF IntParses(bs) THEN 10 * ParseInt(bs) ELSE CHOOSE f \in FloatDomain : FloatStr(f) = bs

----------------------------------------------------------------------------
(* The stash: a dict of dicts.  Its entries 'has_stash', 'iv', 'aad' and    *)
(* 'cleartext' are fields; the entries keyed by a mapping key or a list     *)
(* index are kids.                                                          *)

MKey(k) == [m |-> k]
IKey(i) == [i |-> i]

EmptyStash ==
    [has_stash |-> FALSE, leaf |-> FALSE, iv |-> IvBytes(0), aad |-> "",
     cleartext |-> <<>>, kids |-> <<>>]

\* {'has_stash': True}
NewStash == [EmptyStash EXCEPT !.has_stash = TRUE]

\* stash = dict(); stash['sops'] = dict(tree['sops'])
RootStash == [EmptyStash EXCEPT !.kids = << [k |-> MKey("sops"), s |-> EmptyStash] >>]

\* `if stash:` -- a dict is true when it is not empty
Truthy(s) == s.has_stash \/ s.leaf \/ s.kids # <<>>

\* `k in stash`
StashHas(s, k) == \E i \in 1..Len(s.kids) : s.kids[i].k = k

\* stash[k]
StashGet(s, k) == s.kids[CHOOSE i \in 1..Len(s.kids) : s.kids[i].k = k].s

\* stash[k] = v
StashSet(s, k, v) ==
    IF StashHas(s, k)
    THEN [s EXCEPT !.kids = [i \in 1..Len(s.kids) |->
                               IF s.kids[i].k = k THEN [k |-> k, s |-> v] ELSE s.kids[i]]]
    ELSE [s EXCEPT !.kids = Append(s.kids, [k |-> k, s |-> v])]

----------------------------------------------------------------------------
(* The digest and the walk context *)

\* hashlib.sha512(): what has been absorbed; on = FALSE is digest=None
NewDigest == [on |-> TRUE, fed |-> <<>>]
NoDigest == [on |-> FALSE, fed |-> <<>>]

\* digest.hexdigest().upper(): a str
HexDigest(d) == StrLeaf(<<[c |-> "SHA512", of |-> d.fed]>>)

\* err = "" while no exception or panic has ended the walk; aads and clear are
\* ghosts: the AAD handed to decrypt/encrypt per leaf, and every cleartext
\* decrypted
NewCtx(d, iv) == [err |-> "", digest |-> d, iv |-> iv, aads |-> <<>>, clear |-> <<>>]

----------------------------------------------------------------------------
(* decrypt *)

\* re.match(valre, value.encode('utf-8')): the value starts with an envelope
\* all of whose groups (.+) are non-empty; ,type:(.+) is required from 0.8
EnvMatches(value, ver) ==
    /\ Len(value.v) >= 1
    /\ IsEnvAtom(value.v[1])
    /\ TextNonEmpty(value.v[1].data)
    /\ TextNonEmpty(value.v[1].iv)
    /\ TextNonEmpty(value.v[1].tag)
    /\ (ver >= 8 => value.v[1].type # "")

\* group(3): before 0.8 the greedy group also takes a ,type:.. segment, if any
TagGroup(e, ver) ==
    IF ver >= 8 \/ e.type = "" THEN e.tag
    ELSE [raw |-> [bad |-> e.tag.raw], junk |-> TRUE]

\* the `if valtype == b'..'` chain that restores the typed value; in Python 3
\* the default valtype 'str' of a pre-0.8 input equals none of the bytes
\* literals and falls through to panic(.., 23)
Restore(valtype, cleartext) ==
    IF valtype = "bytes" THEN [err |-> "", value |-> BytesLeaf(cleartext)]
    ELSE IF valtype = "str" THEN
        [err |-> "", value |-> IF Utf8Valid(cleartext) THEN StrLeaf(cleartext)
                                ELSE BytesLeaf(cleartext)]
    ELSE IF valtype = "int" THEN
        IF IntParses(cleartext) THEN [err |-> "", value |-> IntLeaf(ParseInt(cleartext))]
        ELSE [err |-> "ValueError", value |-> StrLeaf(<<>>)]
    ELSE IF valtype = "float" THEN
        IF FloatParses(cleartext) THEN [err |-> "", value |-> FloatLeaf(ParseFloat(cleartext))]
        ELSE [err |-> "ValueError", value |-> StrLeaf(<<>>)]
    ELSE IF valtype = "bool" THEN
        [err |-> "", value |-> BoolLeaf(Lower(cleartext) = <<Ch("t"), Ch("r"), Ch("u"), Ch("e")>>)]
    ELSE [err |-> "panic23", value |-> StrLeaf(<<>>)]

\* decrypt(value, key, aad, stash, digest): [err, value, stash, digest, clear]
decrypt(value, k, aad, stash, digest, ver) ==
    IF value.ty # "str" THEN
        \* value.encode: only str has it
        [err |-> "AttributeError", value |-> value, stash |-> stash, digest |-> digest,
         clear |-> <<>>]
    ELSE IF ~EnvMatches(value, ver) THEN
        [err |-> "", value |-> value, stash |-> stash, digest |-> digest, clear |-> <<>>]
    ELSE
        LET e == value.v[1]
            enc_value == b64decode(e.data)
            iv == b64decode(e.iv)
            tag == b64decode(TagGroup(e, ver))
            valtype == IF ver >= 8 THEN e.type ELSE "str (not bytes)"
            opened == GcmOpen(k, iv, tag, aad, enc_value)
            cleartext == opened.pt
            nstash == IF Truthy(stash)
                      THEN [stash EXCEPT !.leaf = TRUE, !.iv = iv, !.aad = aad,
                                         !.cleartext = cleartext]
                      ELSE stash
            ndigest == IF digest.on THEN [digest EXCEPT !.fed = @ \o cleartext] ELSE digest
            r == Restore(valtype, cleartext)
        IN  IF ~opened.ok
            THEN [err |-> "InvalidTag", value |-> value, stash |-> stash,
                  digest |-> digest, clear |-> <<>>]
            ELSE [err |-> r.err, value |-> r.value, stash |-> nstash, digest |-> ndigest,
                  clear |-> cleartext]

----------------------------------------------------------------------------
(* The sops branch of a document *)

Sops(version, haslm, lm, hasmac, mac) ==
    [t |-> "sops", version |-> version, haslm |-> haslm, lastmodified |-> lm,
     hasmac |-> hasmac, mac |-> mac]

\* branch['sops'] of the root mapping
SopsOf(branch) ==
    branch.items[CHOOSE i \in 1..Len(branch.items) : branch.items[i].k = "sops"].v

\* branch['sops'][..] = ..: the entry keeps its place
SetSops(items, sops) ==
    [i \in 1..Len(items) |-> IF items[i].k = "sops" THEN KV("sops", sops) ELSE items[i]]

----------------------------------------------------------------------------
(* walk_and_decrypt, walk_list_and_decrypt *)

\* wad_caad with the AAD of a pre-0.9 entry built from the inherited AAD
\* alone; C7_LegacyAad tells the two apart
wad_caad_nocarry(ver, aad, carryaad, k) ==
    IF ver >= 9 THEN aad \o k \o ":" ELSE aad \o k

\* the AAD of the entry k of a mapping walked with aad, carryaad being the
\* AAD of the entry before it (the mapping's own aad for its first entry)
wad_caad(ver, aad, carryaad, k) ==
    IF ver >= 9 THEN aad \o k \o ":" ELSE carryaad \o k

\* one decrypted leaf folded into the walk context
CtxAfterDecrypt(ctx, r, path, aad) ==
    [ctx EXCEPT !.err = r.err, !.digest = r.digest,
                !.aads = Append(@, [path |-> path, aad |-> aad]),
                !.clear = @ \o r.clear]

RECURSIVE wad_items(_, _, _, _, _, _, _)
RECURSIVE wld_items(_, _, _, _, _, _)

\* branch[k] = <the walked mapping>, <the walked list>, <the decrypted leaf>
MapWalked(r) == [node |-> Map(r.out), stash |-> r.stash, ctx |-> r.ctx]
ListWalked(r) == [node |-> List(r.out), stash |-> r.stash, ctx |-> r.ctx]
LeafDecrypted(r, ctx, path, aad) ==
    [node |-> r.value, stash |-> r.stash, ctx |-> CtxAfterDecrypt(ctx, r, path, aad)]

\* the isinstance dispatch of walk_and_decrypt on the value v of an entry
wad_value(v, E, caad, nstash, ctx, path) ==
    IF v.t = "map" THEN MapWalked(wad_items(v.items, E, caad, nstash, ctx, FALSE, path))
    ELSE IF v.t = "list" THEN ListWalked(wld_items(v.items, E, caad, nstash, ctx, path))
    ELSE LeafDecrypted(decrypt(v, E.key, caad, nstash, ctx.digest, E.ver), ctx, path, caad)

\* the isinstance dispatch of walk_list_and_decrypt on the element v
wld_value(v, E, aad, nstash, ctx, path) ==
    IF v.t = "map" THEN MapWalked(wad_items(v.items, E, aad, nstash, ctx, FALSE, path))
    ELSE IF v.t = "list" THEN ListWalked(wld_items(v.items, E, aad, nstash, ctx, path))
    ELSE LeafDecrypted(decrypt(v, E.key, aad, nstash, ctx.digest, E.ver), ctx, path, aad)

\* `if stash: stash[k] = {'has_stash': True}; nstash = stash[k]`, else dict()
wd_nstash(stash) == IF Truthy(stash) THEN NewStash ELSE EmptyStash

\* the state of walk_and_decrypt's loop after the entry k: r is the walked
\* value; the entry's stash is the one the walk of the value filled
wad_after(acc, ver, k, caad, r) ==
    [out |-> Append(acc.out, KV(k, r.node)),
     carry |-> IF ver >= 9 THEN acc.carry ELSE caad,
     stash |-> IF Truthy(acc.stash) THEN StashSet(acc.stash, MKey(k), r.stash)
               ELSE acc.stash,
     ctx |-> r.ctx]

\* one iteration of `for k, v in branch.items()` of walk_and_decrypt; an
\* exception (ctx.err) has ended the walk
wad_entry(acc, e, E, aad, isRoot, path) ==
    IF acc.ctx.err # "" THEN acc
    ELSE IF e.k = "sops" /\ isRoot THEN [acc EXCEPT !.out = Append(@, e)]
    ELSE wad_after(acc, E.ver, e.k, wad_caad(E.ver, aad, acc.carry, e.k),
                   wad_value(e.v, E, wad_caad(E.ver, aad, acc.carry, e.k),
                             wd_nstash(acc.stash), acc.ctx, Append(path, MKey(e.k))))

\* `for k, v in branch.items()` of walk_and_decrypt: F[i] is the loop's
\* state after the first i entries; carryaad starts as aad
wad_items(items, E, aad, stash, ctx, isRoot, path) ==
    LET F[i \in 0..Len(items)] ==
            IF i = 0 THEN [out |-> <<>>, carry |-> aad, stash |-> stash, ctx |-> ctx]
            ELSE wad_entry(F[i - 1], items[i], E, aad, isRoot, path)
    IN  F[Len(items)]

\* the state of walk_list_and_decrypt's loop after element i
wld_after(acc, i, r) ==
    [out |-> Append(acc.out, r.node),
     stash |-> IF Truthy(acc.stash) THEN StashSet(acc.stash, IKey(i), r.stash)
               ELSE acc.stash,
     ctx |-> r.ctx]

\* one iteration of `for i, v in enumerate(list(branch))`
wld_entry(acc, i, v, E, aad, path) ==
    IF acc.ctx.err # "" THEN acc
    ELSE wld_after(acc, i, wld_value(v, E, aad, wd_nstash(acc.stash), acc.ctx,
                                     Append(path, IKey(i))))

\* `for i, v in enumerate(list(branch))` of walk_list_and_decrypt
wld_items(items, E, aad, stash, ctx, path) ==
    LET F[i \in 0..Len(items)] ==
            IF i = 0 THEN [out |-> <<>>, stash |-> stash, ctx |-> ctx]
            ELSE wld_entry(F[i - 1], i - 1, items[i], E, aad, path)
    IN  F[Len(items)]

\* a comparison that lets every digest pass; C8_MismatchFatalUnlessIgnored
\* tells it from mac_differs
mac_never_differs(h, orig_h) == FALSE

\* `if h != orig_h` at the root: the recomputed digest against decrypt(sops.mac)
mac_differs(h, orig_h) == h # orig_h

\* m is decrypt(branch['sops']['mac'], ..): its exception, or the comparison
mac_verdict(digest, m) ==
    IF m.err # "" THEN m.err
    ELSE IF mac_differs(HexDigest(digest), m.value) THEN "panic51"
    ELSE ""

\* the root's check after the loop: "" or the error that ends the run
mac_check(sops, k, digest, ver) ==
    IF ~sops.hasmac THEN "panic52"
    ELSE IF ~sops.haslm THEN "KeyError"
    ELSE
        mac_verdict(digest, decrypt(sops.mac, k, sops.lastmodified, EmptyStash, NoDigest, ver))

\* the end of walk_and_decrypt at the root, r the state after the loop: an
\* exception of the loop, else (`if isRoot and not ignoreMac`) the check
wad_root(branch, k, ignoreMac, ver, r) ==
    [err |-> IF r.ctx.err # "" THEN r.ctx.err
             ELSE IF ignoreMac THEN ""
             ELSE mac_check(SopsOf(branch), k, r.ctx.digest, ver),
     tree |-> Map(r.out), stash |-> r.stash, fed |-> r.ctx.digest.fed,
     aads |-> r.ctx.aads, clear |-> r.ctx.clear]

\* walk_and_decrypt(branch, key, stash=stash, ignoreMac=ignoreMac) at the root
\* under INPUT_VERSION = ver; stash = EmptyStash is stash=None
walk_and_decrypt(branch, k, stash, ignoreMac, ver) ==
    wad_root(branch, k, ignoreMac, ver,
             wad_items(branch.items, [key |-> k, ver |-> ver], "", stash,
                       NewCtx(IF ~ignoreMac THEN NewDigest ELSE NoDigest, 0), TRUE, <<>>))

----------------------------------------------------------------------------
(* encrypt, walk_and_encrypt, walk_list_and_encrypt *)

\* `if stash and 'cleartext' in stash and stash['cleartext'] == value`
takes_stashed_iv(stash, value) == Truthy(stash) /\ stash.leaf /\ stash.cleartext = value

\* encrypt(value, key, aad, stash, digest) with ivc IVs drawn so far:
\* [value, digest, iv]
encrypt(value, k, aad, stash, digest, ivc) ==
    LET valtype == ValType(value)
        bytes == ToBytes(value)
        ndigest == IF digest.on THEN [digest EXCEPT !.fed = @ \o bytes] ELSE digest
        reuse == takes_stashed_iv(stash, bytes)
        iv == IF reuse THEN stash.iv ELSE IvBytes(ivc + 1)
        enc_value == GcmCt(k, iv, bytes)
        tag == GcmTag(k, iv, aad, enc_value)
    IN  [value |-> StrLeaf(<<Env(b64encode(enc_value), b64encode(iv), b64encode(tag),
                                 valtype)>>),
         digest |-> ndigest,
         iv |-> IF reuse THEN ivc ELSE ivc + 1]

\* wae_caad without the ':' after the key; C6_AadIsKeyPath tells the two
\* apart
wae_caad_nosep(aad, k) == aad \o k

\* the AAD of the entry k of a mapping walked with aad
wae_caad(aad, k) == aad \o k \o ":"

\* one encrypted leaf folded into the walk context
CtxAfterEncrypt(ctx, r, path, aad) ==
    [ctx EXCEPT !.digest = r.digest, !.iv = r.iv,
                !.aads = Append(@, [path |-> path, aad |-> aad])]

RECURSIVE wae_items(_, _, _, _, _, _, _)
RECURSIVE wle_items(_, _, _, _, _, _)

\* branch[k] = <the walked mapping>, <the walked list>, <the envelope>
MapEncrypted(r) == [node |-> Map(r.out), ctx |-> r.ctx]
ListEncrypted(r) == [node |-> List(r.out), ctx |-> r.ctx]
LeafEncrypted(r, ctx, path, aad) ==
    [node |-> r.value, ctx |-> CtxAfterEncrypt(ctx, r, path, aad)]

\* the isinstance dispatch of walk_and_encrypt on the value v of an entry
wae_value(v, k, caad, nstash, ctx, path) ==
    IF v.t = "map" THEN MapEncrypted(wae_items(v.items, k, caad, nstash, ctx, FALSE, path))
    ELSE IF v.t = "list" THEN ListEncrypted(wle_items(v.items, k, caad, nstash, ctx, path))
    ELSE LeafEncrypted(encrypt(v, k, caad, nstash, ctx.digest, ctx.iv), ctx, path, caad)

\* the isinstance dispatch of walk_list_and_encrypt on the element v
wle_value(v, k, aad, nstash, ctx, path) ==
    IF v.t = "map" THEN MapEncrypted(wae_items(v.items, k, aad, nstash, ctx, FALSE, path))
    ELSE IF v.t = "list" THEN ListEncrypted(wle_items(v.items, k, aad, nstash, ctx, path))
    ELSE LeafEncrypted(encrypt(v, k, aad, nstash, ctx.digest, ctx.iv), ctx, path, aad)

\* nstash = dict(); `if stash and k in stash: nstash = stash[k]`
wae_nstash(stash, k) ==
    IF Truthy(stash) /\ StashHas(stash, MKey(k)) THEN StashGet(stash, MKey(k))
    ELSE EmptyStash

\* the state of walk_and_encrypt's loop after the entry k
wae_after(acc, k, r) == [out |-> Append(acc.out, KV(k, r.node)), ctx |-> r.ctx]

\* one iteration of `for k, v in branch.items()` of walk_and_encrypt
wae_entry(acc, e, k, aad, stash, isRoot, path) ==
    IF e.k = "sops" /\ isRoot THEN [acc EXCEPT !.out = Append(@, e)]
    ELSE wae_after(acc, e.k,
                   wae_value(e.v, k, wae_caad(aad, e.k), wae_nstash(stash, e.k), acc.ctx,
                             Append(path, MKey(e.k))))

\* `for k, v in branch.items()` of walk_and_encrypt: F[i] is the loop's
\* state after the first i entries
wae_items(items, k, aad, stash, ctx, isRoot, path) ==
    LET F[i \in 0..Len(items)] ==
            IF i = 0 THEN [out |-> <<>>, ctx |-> ctx]
            ELSE wae_entry(F[i - 1], items[i], k, aad, stash, isRoot, path)
    IN  F[Len(items)]

\* the stash entry walk_list_and_encrypt hands to element i: stash[i] when
\* the stash holds i, else the one handed to the element before (nstash is
\* set to dict() once, before the loop)
wle_nstash(stash, i, prev) ==
    IF Truthy(stash) /\ StashHas(stash, IKey(i)) THEN StashGet(stash, IKey(i)) ELSE prev

\* the state of walk_list_and_encrypt's loop after an element
wle_after(acc, nstash, r) ==
    [out |-> Append(acc.out, r.node), ctx |-> r.ctx, nstash |-> nstash]

\* one iteration of `for i, v in enumerate(list(branch))`
wle_entry(acc, i, v, k, aad, stash, path) ==
    wle_after(acc, wle_nstash(stash, i, acc.nstash),
              wle_value(v, k, aad, wle_nstash(stash, i, acc.nstash), acc.ctx,
                        Append(path, IKey(i))))

\* `for i, v in enumerate(list(branch))` of walk_list_and_encrypt
wle_items(items, k, aad, stash, ctx, path) ==
    LET F[i \in 0..Len(items)] ==
            IF i = 0 THEN [out |-> <<>>, ctx |-> ctx, nstash |-> EmptyStash]
            ELSE wle_entry(F[i - 1], i - 1, items[i], k, aad, stash, path)
    IN  F[Len(items)]

\* branch['sops']['lastmodified'] = NOW; branch['sops']['mac'] = mac
wae_sealed(now, r, mac) ==
    [tree |-> Map(SetSops(r.out, [SopsOf(Map(r.out)) EXCEPT
                                    !.haslm = TRUE, !.lastmodified = now,
                                    !.hasmac = TRUE, !.mac = mac.value])),
     fed |-> r.ctx.digest.fed, aads |-> r.ctx.aads, iv |-> mac.iv]

\* the end of walk_and_encrypt at the root, r the state after the loop:
\* the hex digest is encrypted under the AAD NOW, with no stash and no digest
wae_root(k, now, r) ==
    wae_sealed(now, r, encrypt(HexDigest(r.ctx.digest), k, now, EmptyStash, NoDigest, r.ctx.iv))

\* walk_and_encrypt(branch, key, stash=stash) at the root, NOW = now, with
\* ivc IVs drawn so far; stash = EmptyStash is stash=None
walk_and_encrypt(branch, k, stash, now, ivc) ==
    wae_root(k, now, wae_items(branch.items, k, "", stash, NewCtx(NewDigest, ivc), TRUE, <<>>))

----------------------------------------------------------------------------
(* Addressing the leaves of a document (used by the inputs and the claims) *)

RECURSIVE LeafPathsFrom(_, _, _)
\* the paths of the leaves of node in traversal order, the root's sops entry
\* left out; a path is a sequence of MKey / IKey steps
LeafPathsFrom(node, isRoot, path) ==
    IF node.t = "leaf" THEN <<path>>
    ELSE IF node.t = "sops" THEN <<>>
    ELSE
        LET F[i \in 0..Len(node.items)] ==
                IF i = 0 THEN <<>>
                ELSE IF node.t = "list"
                THEN F[i - 1] \o LeafPathsFrom(node.items[i], FALSE, Append(path, IKey(i - 1)))
                ELSE IF node.items[i].k = "sops" /\ isRoot THEN F[i - 1]
                ELSE F[i - 1] \o LeafPathsFrom(node.items[i].v, FALSE,
                                               Append(path, MKey(node.items[i].k)))
        IN  F[Len(node.items)]

LeafPaths(root) == LeafPathsFrom(root, TRUE, <<>>)

\* the position in node.items that the step names
StepIndex(node, step) ==
    IF node.t = "list" THEN step.i + 1
    ELSE CHOOSE i \in 1..Len(node.items) : node.items[i].k = step.m

RECURSIVE NodeAt(_, _)
NodeAt(node, path) ==
    IF path = <<>> THEN node
    ELSE LET i == StepIndex(node, path[1])
         IN  NodeAt(IF node.t = "list" THEN node.items[i] ELSE node.items[i].v, Tail(path))

RECURSIVE ReplaceAt(_, _, _)
ReplaceAt(node, path, new) ==
    IF path = <<>> THEN new
    ELSE LET i == StepIndex(node, path[1])
         IN  IF node.t = "list"
             THEN [node EXCEPT !.items[i] = ReplaceAt(@, Tail(path), new)]
             ELSE [node EXCEPT !.items[i].v = ReplaceAt(@, Tail(path), new)]

\* the leaves of a document in traversal order
Leaves(root) == LET ps == LeafPaths(root) IN [i \in 1..Len(ps) |-> NodeAt(root, ps[i])]

RECURSIVE Concat(_)
Concat(ss) == IF ss = <<>> THEN <<>> ELSE Head(ss) \o Concat(Tail(ss))

\* the cleartext bytes of all leaves of a document, in traversal order
LeafBytes(root) == LET ls == Leaves(root) IN Concat([i \in 1..Len(ls) |-> ToBytes(ls[i])])

\* the document without its sops entry
StripSops(root) == Map(SelectSeq(root.items, LAMBDA e : e.k # "sops"))

----------------------------------------------------------------------------
(* Inputs: the documents a run starts from *)

T12 == <<Ch("1"), Ch("2")>>

\* cleartext leaf values: the empty str, a str, an int, a bool, bytes that
\* are not UTF-8
LeafValues == {StrLeaf(<<>>), StrLeaf(T12), IntLeaf(12), BoolLeaf(TRUE), BytesLeaf(<<Ch("xFF")>>)}

\* the sops branch of a document that has not been encrypted yet
FreshSops(ver) == Sops(ver, FALSE, "", FALSE, StrLeaf(<<>>))

\* the shapes of document, over two leaves: two entries around the sops
\* branch; a list; a nested mapping with a key named sops; a list holding a
\* mapping and a list
Shape(n, x, y, ver) ==
    IF n = 1 THEN Map(<<KV("a", x), KV("sops", FreshSops(ver)), KV("b", y)>>)
    ELSE IF n = 2 THEN Map(<<KV("a", List(<<x, y>>)), KV("sops", FreshSops(ver))>>)
    ELSE IF n = 3 THEN Map(<<KV("a", Map(<<KV("b", x), KV("sops", y)>>)),
                             KV("sops", FreshSops(ver))>>)
    ELSE Map(<<KV("sops", FreshSops(ver)),
               KV("b", List(<<Map(<<KV("a", x)>>), List(<<y>>)>>))>>)

\* {outer: {inner: [1, "two", {deep: false}]}}
NestedDoc(ver) ==
    Map(<<KV("outer", Map(<<KV("inner",
              List(<<IntLeaf(1), StrLeaf(<<Ch("t"), Ch("w"), Ch("o")>>),
                     Map(<<KV("deep", BoolLeaf(FALSE))>>)>>))>>)),
          KV("sops", FreshSops(ver))>>)

Versions == {7, 8, VERSION}

Docs ==
    UNION {{Shape(n, x, y, ver) : n \in 1..4, x \in LeafValues, y \in LeafValues}
           \cup {NestedDoc(ver)} : ver \in Versions}

DataKeys == {1, 2}

----------------------------------------------------------------------------
(* Master keys: the sops.kms and sops.pgp lists and get_key                 *)

\* a data key: id 1, 2 are keys wrapped in a document, NewKeyId the one
\* os.urandom(32) returns; None and the empty string are id 0
DataKey(id, len) == [id |-> id, len |-> len]
None == DataKey(0, 0)
NewKeyId == 3

\* a sops.kms entry. arn: "none" (no 'arn' key), "", "bad" (not a KMS ARN)
\* or "arn"; role: "none" (no 'role' key), "ok" or "fail" (assume_role
\* raises); hasenc / enc: the 'enc' key and the data key wrapped in it
\* (id 0: the empty string); env: "raise" when the KMS call for this entry
\* raises, else "ok"
KmsEntry(arn, role, hasenc, enc, env) ==
    [arn |-> arn, role |-> role, hasenc |-> hasenc, enc |-> enc, env |-> env,
     created_at |-> ""]

\* a sops.pgp entry. fp: "none", "" or "fp"; env: "raise" when Popen raises,
\* "fail" when gpg exits with an error and an empty output, else "ok"
PgpEntry(fp, hasenc, enc, env) ==
    [fp |-> fp, hasenc |-> hasenc, enc |-> enc, env |-> env, created_at |-> ""]

\* get_aws_session_for_entry(entry): "client" or "None"
get_aws_session_for_entry(entry) ==
    IF entry.arn # "arn" THEN "None"
    ELSE IF entry.role = "none" THEN "client"
    ELSE IF entry.role = "fail" THEN "None"
    ELSE "client"

\* kms.decrypt(CiphertextBlob=b64decode(enc)): raises, or the wrapped key
kms_decrypt(entry) ==
    IF entry.env = "raise" \/ entry.enc.id = 0 THEN [raised |-> TRUE, Plaintext |-> None]
    ELSE [raised |-> FALSE, Plaintext |-> entry.enc]

\* gpg -d: Popen raises, or what gpg writes to stdout (nothing on an error)
gpg_decrypt(entry) ==
    IF entry.env = "raise" THEN [raised |-> TRUE, out |-> None]
    ELSE IF entry.env = "fail" \/ entry.enc.id = 0 THEN [raised |-> FALSE, out |-> None]
    ELSE [raised |-> FALSE, out |-> entry.enc]

\* kms_returned with the loop ended by the first KMS error;
\* C9_UnwrapFallback tells the two apart
kms_returned_abort(acc, i, resp) ==
    IF resp.raised THEN [done |-> TRUE, key |-> None, calls |-> Append(acc.calls, <<"kms", i>>)]
    ELSE [done |-> TRUE, key |-> resp.Plaintext, calls |-> Append(acc.calls, <<"kms", i>>)]

\* the end of an iteration of get_key_from_kms that reached kms.decrypt
kms_returned(acc, i, resp) ==
    IF resp.raised THEN [acc EXCEPT !.calls = Append(@, <<"kms", i>>)]
    ELSE [done |-> TRUE, key |-> resp.Plaintext, calls |-> Append(acc.calls, <<"kms", i>>)]

\* one iteration of `for entry in kms_tree`: the entry is skipped (continue)
\* or its plaintext is returned
kms_entry(acc, i, entry) ==
    IF acc.done THEN acc
    ELSE IF ~entry.hasenc THEN acc
    ELSE IF entry.arn = "none" \/ entry.arn = "" THEN acc
    ELSE IF get_aws_session_for_entry(entry) = "None" THEN acc
    ELSE kms_returned(acc, i, kms_decrypt(entry))

\* get_key_from_kms(tree): [done, key, calls]; key = None when the list is
\* absent or no entry returned
get_key_from_kms(sops) ==
    LET F[i \in 0..Len(sops.kms)] ==
            IF i = 0 THEN [done |-> FALSE, key |-> None, calls |-> <<>>]
            ELSE kms_entry(F[i - 1], i - 1, sops.kms[i])
    IN  IF ~sops.haskms THEN [done |-> FALSE, key |-> None, calls |-> <<>>]
        ELSE F[Len(sops.kms)]

\* the end of an iteration of get_key_from_pgp that ran gpg
pgp_returned(acc, i, resp) ==
    IF resp.raised THEN [acc EXCEPT !.calls = Append(@, <<"pgp", i>>)]
    ELSE IF resp.out.len = 32
    THEN [done |-> TRUE, key |-> resp.out, calls |-> Append(acc.calls, <<"pgp", i>>)]
    ELSE [acc EXCEPT !.calls = Append(@, <<"pgp", i>>)]

\* one iteration of `for entry in pgp_tree`
pgp_entry(acc, i, entry) ==
    IF acc.done THEN acc
    ELSE IF ~entry.hasenc THEN acc
    ELSE pgp_returned(acc, i, gpg_decrypt(entry))

\* get_key_from_pgp(tree): [done, key, calls]
get_key_from_pgp(sops) ==
    LET F[i \in 0..Len(sops.pgp)] ==
            IF i = 0 THEN [done |-> FALSE, key |-> None, calls |-> <<>>]
            ELSE pgp_entry(F[i - 1], i - 1, sops.pgp[i])
    IN  IF ~sops.haspgp THEN [done |-> FALSE, key |-> None, calls |-> <<>>]
        ELSE F[Len(sops.pgp)]

\* `if not (key is None): return key, tree` after get_key_from_pgp, else
\* panic(.., error_code=128)
unwrap_pgp(k, p) ==
    IF p.done THEN [status |-> "ok", key |-> p.key, calls |-> k.calls \o p.calls]
    ELSE [status |-> "exit128", key |-> None, calls |-> k.calls \o p.calls]

\* `if not (key is None): return key, tree` after get_key_from_kms
unwrap_kms(sops, k) ==
    IF k.done THEN [status |-> "ok", key |-> k.key, calls |-> k.calls]
    ELSE unwrap_pgp(k, get_key_from_pgp(sops))

\* get_key(tree) with need_key false: [status, key, calls]
get_key_unwrap(sops) == unwrap_kms(sops, get_key_from_kms(sops))

\* encrypt_key_with_kms(key, entry): the entry as it is, None, or the entry
\* with the key wrapped; res is "entry" or "None"
encrypt_key_with_kms(k, entry) ==
    IF entry.arn = "none" \/ entry.arn = "" THEN [res |-> "entry", entry |-> entry, called |-> FALSE]
    ELSE IF get_aws_session_for_entry(entry) = "None"
    THEN [res |-> "entry", entry |-> entry, called |-> FALSE]
    ELSE IF entry.env = "raise" THEN [res |-> "None", entry |-> entry, called |-> TRUE]
    ELSE [res |-> "entry", called |-> TRUE,
          entry |-> [entry EXCEPT !.hasenc = TRUE, !.enc = k, !.created_at = NOW("encrypt")]]

\* encrypt_key_with_pgp(key, entry): gpg's output is stored whatever gpg's
\* exit status is
encrypt_key_with_pgp(k, entry) ==
    IF entry.fp = "none" \/ entry.fp = "" THEN [res |-> "entry", entry |-> entry, called |-> FALSE]
    ELSE IF entry.env = "raise" THEN [res |-> "None", entry |-> entry, called |-> TRUE]
    ELSE [res |-> "entry", called |-> TRUE,
          entry |-> [entry EXCEPT !.hasenc = TRUE,
                                  !.enc = IF entry.env = "fail" THEN None ELSE k,
                                  !.created_at = NOW("encrypt")]]

\* `if 'enc' in updated and updated['enc'] != ""` on what the wrap returned:
\* None is not a container, the test raises TypeError; the entry is changed
\* in place, the list holds it whether or not it is assigned
wrap_updated(acc, who, i, u) ==
    IF u.res = "None"
    THEN [acc EXCEPT !.err = "TypeError", !.out = Append(@, u.entry),
                     !.calls = IF u.called THEN Append(@, <<who, i>>) ELSE @]
    ELSE [acc EXCEPT !.out = Append(@, u.entry),
                     !.has = @ \/ (u.entry.hasenc /\ u.entry.enc.id # 0),
                     !.calls = IF u.called THEN Append(@, <<who, i>>) ELSE @]

\* one iteration of `for entry in tree['sops']['kms']` of get_key
wrap_kms_entry(acc, i, k, entry) ==
    IF acc.err # "" THEN [acc EXCEPT !.out = Append(@, entry)]
    ELSE wrap_updated(acc, "kms", i, encrypt_key_with_kms(k, entry))

\* one iteration of `for entry in tree['sops']['pgp']` of get_key
wrap_pgp_entry(acc, i, k, entry) ==
    IF acc.err # "" THEN [acc EXCEPT !.out = Append(@, entry)]
    ELSE wrap_updated(acc, "pgp", i, encrypt_key_with_pgp(k, entry))

\* the loop over one of the lists: F[i] is its state after i entries
wrap_list(entries, who, k, acc0) ==
    LET F[i \in 0..Len(entries)] ==
            IF i = 0 THEN [acc0 EXCEPT !.out = <<>>]
            ELSE IF who = "kms" THEN wrap_kms_entry(F[i - 1], i - 1, k, entries[i])
            ELSE wrap_pgp_entry(F[i - 1], i - 1, k, entries[i])
    IN  F[Len(entries)]

\* `if not has_at_least_one_method: panic(.., 37)`, else return key, tree
wrap_end(sops, k, a, b) ==
    [status |-> IF b.err # "" THEN b.err ELSE IF ~b.has THEN "exit37" ELSE "ok",
     key |-> IF b.err = "" /\ b.has THEN k ELSE None,
     kms |-> a.out, pgp |-> b.out, calls |-> b.calls]

\* the pgp loop of get_key, after the kms loop left a
wrap_pgp(sops, k, a) == wrap_end(sops, k, a, wrap_list(sops.pgp, "pgp", k, a))

\* get_key(tree, need_key=True), os.urandom(32) returning k:
\* [status, key, kms, pgp, calls]
get_key_wrap(sops, k) ==
    wrap_pgp(sops, k, wrap_list(sops.kms, "kms", k,
                                [err |-> "", has |-> FALSE, out |-> <<>>, calls |-> <<>>]))

\* Python's None stored as an element of sops.kms / sops.pgp
KmsNone == KmsEntry("NoneType", "none", FALSE, None, "ok")
PgpNone == PgpEntry("NoneType", FALSE, None, "ok")

\* one iteration of the loops of verify_or_create_sops_branch, id the entry's
\* arn or fp: `'arn' in entry and entry['arn'] != "" and entry['enc'] != ""`;
\* entry['enc'] raises KeyError when the entry has no 'enc'
vc_entry(acc, id, entry) ==
    IF acc # "" THEN acc
    ELSE IF id = "none" \/ id = "" THEN acc
    ELSE IF ~entry.hasenc THEN "KeyError"
    ELSE IF entry.enc.id # 0 THEN "found"
    ELSE acc

\* `for entry in tree['sops']['kms']`: "found", "KeyError" or ""
vc_kms(sops) ==
    LET F[i \in 0..Len(sops.kms)] ==
            IF i = 0 THEN "" ELSE vc_entry(F[i - 1], sops.kms[i].arn, sops.kms[i])
    IN  F[Len(sops.kms)]

\* `for entry in tree['sops']['pgp']`, after the kms loop left a
vc_pgp(sops, a) ==
    LET F[i \in 0..Len(sops.pgp)] ==
            IF i = 0 THEN a ELSE vc_entry(F[i - 1], sops.pgp[i].fp, sops.pgp[i])
    IN  F[Len(sops.pgp)]

\* parse_kms_arn(tree, kms_arns), kms_arns naming one key: arg is the entry
\* it makes, {"arn": ..} or {"arn": .., "role": ..}
parse_kms_arn(sops, arg) == [sops EXCEPT !.haskms = TRUE, !.kms = <<arg>>]

\* parse_pgp_fp(tree, pgp_fps), pgp_fps naming one key
parse_pgp_fp(sops, arg) == [sops EXCEPT !.haspgp = TRUE, !.pgp = <<arg>>]

\* the end of verify_or_create_sops_branch, found what the loops left.
\* kms_arns and pgp_fps are strings, never None: both lists are replaced and
\* has_at_least_one_method is true, panic(.., 111) is not reached
vc_end(sops, kmsarg, pgparg, found) ==
    IF found = "found" THEN [err |-> "", need_key |-> FALSE, sops |-> sops]
    ELSE IF found = "KeyError" THEN [err |-> "KeyError", need_key |-> FALSE, sops |-> sops]
    ELSE [err |-> "", need_key |-> TRUE,
          sops |-> parse_pgp_fp(parse_kms_arn(sops, kmsarg), pgparg)]

\* verify_or_create_sops_branch(tree, kms_arns, pgp_fps) on a tree that has
\* a sops branch: [err, need_key, sops]
verify_or_create_sops_branch(sops, kmsarg, pgparg) ==
    vc_end(sops, kmsarg, pgparg, vc_pgp(sops, vc_kms(sops)))

\* tree['sops'][..][i] = updated
umk_stored(u, none) == IF u.res = "None" THEN none ELSE u.entry

\* one iteration of the kms loop of update_master_keys
umk_kms_entry(k, entry) ==
    IF ~entry.hasenc \/ entry.enc.id = 0
    THEN umk_stored(encrypt_key_with_kms(k, entry), KmsNone)
    ELSE entry

\* one iteration of the pgp loop of update_master_keys
umk_pgp_entry(k, entry) ==
    IF ~entry.hasenc \/ entry.enc.id = 0
    THEN umk_stored(encrypt_key_with_pgp(k, entry), PgpNone)
    ELSE entry

\* `if tree['sops']['version'] < VERSION: tree['sops']['version'] = VERSION`
umk_version(v) == IF v < VERSION THEN VERSION ELSE v

\* update_master_keys(tree, key): the lists of the sops branch after it
update_master_keys(sops, k) ==
    [sops EXCEPT !.kms = [i \in 1..Len(sops.kms) |-> umk_kms_entry(k, sops.kms[i])],
                 !.pgp = [i \in 1..Len(sops.pgp) |-> umk_pgp_entry(k, sops.pgp[i])]]

\* check_master_keys(tree)
check_master_keys(sops) ==
    \/ \E i \in 1..Len(sops.kms) : sops.kms[i].arn # "none" /\ sops.kms[i].arn # ""
    \/ \E i \in 1..Len(sops.pgp) : sops.pgp[i].fp # "none" /\ sops.pgp[i].fp # ""

----------------------------------------------------------------------------
(* The runs: encrypt, tamper with the stored document, decrypt, edit,       *)
(* encrypt again with the stash                                             *)

NoRun == [err |-> "none", tree |-> Map(<<>>), stash |-> EmptyStash, fed |-> <<>>,
          aads |-> <<>>, clear |-> <<>>, iv0 |-> 0, iv |-> 0]

\* what a run of walk_and_encrypt left: iv0 / iv are the IVs drawn before
\* and after it
EncRun(r, iv0) == [NoRun EXCEPT !.err = "", !.tree = r.tree, !.fed = r.fed,
                                !.aads = r.aads, !.iv0 = iv0, !.iv = r.iv]

\* what a run of walk_and_decrypt left
DecRun(r) == [NoRun EXCEPT !.err = r.err, !.tree = r.tree, !.stash = r.stash,
                           !.fed = r.fed, !.aads = r.aads, !.clear = r.clear]

NoFlags == [ignoreMac |-> FALSE, stash |-> FALSE, tamper |-> "none", at |-> <<>>,
            edit |-> FALSE, editAt |-> <<>>]

NoRing == [haskms |-> FALSE, kms |-> <<>>, haspgp |-> FALSE, pgp |-> <<>>]

NoKeyRun == [mode |-> "none", status |-> "none", key |-> None, ring0 |-> NoRing,
             calls |-> <<>>]

\* a file: state is "none", "written" by write_file, "empty", and for the
\* temp file "edited", "broken" (text the codec rejects) or "removed"
NoFile == [state |-> "none", tree |-> Map(<<>>), ring |-> NoRing]

NoMain == [mode |-> "none", otype |-> "", rotate |-> FALSE, ignoreMac |-> FALSE,
           show |-> FALSE, need_key |-> FALSE, exit |-> "", stored |-> NoFile,
           dest |-> NoFile, tmp |-> NoFile, valid_syntax |-> FALSE,
           has_master_keys |-> FALSE, rounds |-> 0, acks |-> 0]

Init ==
    /\ pc = "plain"
    /\ doc0 \in Docs
    /\ tree = doc0
    /\ key \in DataKeys
    /\ ivctr = 0
    /\ encRun = NoRun
    /\ decRun = NoRun
    /\ reRun = NoRun
    /\ listRun = NoRun
    /\ flags = NoFlags
    /\ ring = NoRing
    /\ keyRun = NoKeyRun
    /\ main = NoMain

\* encrypt mode: tree = walk_and_encrypt(tree, key)
Encrypt ==
    /\ pc = "plain"
    /\ encRun' = EncRun(walk_and_encrypt(tree, key, EmptyStash, NOW("encrypt"), ivctr), ivctr)
    /\ tree' = encRun'.tree
    /\ ivctr' = encRun'.iv
    /\ pc' = "enc"
    /\ UNCHANGED <<doc0, key, decRun, reRun, flags, ring, keyRun, main, listRun>>

IsEnvLeaf(l) == l.t = "leaf" /\ l.ty = "str" /\ Len(l.v) >= 1 /\ IsEnvAtom(l.v[1])

EnvPaths(root) == {q \in {LeafPaths(root)[i] : i \in 1..Len(LeafPaths(root))} :
                     IsEnvLeaf(NodeAt(root, q))}

FieldOf(e, f) == IF f = "data" THEN e.data ELSE IF f = "iv" THEN e.iv ELSE e.tag

WithField(e, f, x) ==
    IF f = "data" THEN [e EXCEPT !.data = x]
    ELSE IF f = "iv" THEN [e EXCEPT !.iv = x]
    ELSE [e EXCEPT !.tag = x]

\* a field value that no encrypt produced
Garbage(f) ==
    IF f = "data" THEN b64encode([key |-> 0, iv |-> IvBytes(0), pt |-> <<Ch("?")>>])
    ELSE IF f = "iv" THEN b64encode(IvBytes(0))
    ELSE b64encode(GcmTag(0, IvBytes(0), "", NoBytes))

\* what a field of an envelope may be changed to: the same field of another
\* envelope of the document, the same base64 with characters outside the
\* alphabet added, bytes no encrypt produced, and (data) the empty text
FieldChanges(root, old, f) ==
    ({FieldOf(NodeAt(root, q).v[1], f) : q \in EnvPaths(root)}
     \cup {FieldOf(SopsOf(root).mac.v[1], f)}
     \cup {[old EXCEPT !.junk = TRUE], Garbage(f)}
     \cup (IF f = "data" THEN {b64encode(NoBytes)} ELSE {}))
    \ {old}

\* the stored document's envelope at path p gets another data, iv or tag
TamperLeafField ==
    /\ pc = "enc"
    /\ \E p \in EnvPaths(tree), f \in {"data", "iv", "tag"} :
         LET e == NodeAt(tree, p).v[1]
         IN  \E x \in FieldChanges(tree, FieldOf(e, f), f) :
                /\ tree' = ReplaceAt(tree, p, StrLeaf(<<WithField(e, f, x)>>))
                /\ flags' = [flags EXCEPT !.tamper = f, !.at = p]
    /\ pc' = "tampered"
    /\ UNCHANGED <<doc0, key, ivctr, encRun, decRun, reRun, ring, keyRun, main, listRun>>

\* sops.mac gets another value: a field of its envelope changed, a leaf's
\* envelope, the digest of the leaves in the clear, or another digest in the
\* clear
TamperMac ==
    /\ pc = "enc"
    /\ LET sops == SopsOf(tree)
           e == sops.mac.v[1]
       IN  \E m \in (UNION {{StrLeaf(<<WithField(e, f, x)>>) :
                                x \in {[FieldOf(e, f) EXCEPT !.junk = TRUE], Garbage(f)}} :
                              f \in {"data", "iv", "tag"}}
                     \cup {NodeAt(tree, q) : q \in EnvPaths(tree)}
                     \cup {HexDigest([on |-> TRUE, fed |-> encRun.fed]),
                           HexDigest([on |-> TRUE, fed |-> <<Ch("?")>>])}) \ {sops.mac} :
              tree' = Map(SetSops(tree.items, [sops EXCEPT !.mac = m]))
    /\ flags' = [flags EXCEPT !.tamper = "mac"]
    /\ pc' = "tampered"
    /\ UNCHANGED <<doc0, key, ivctr, encRun, decRun, reRun, ring, keyRun, main, listRun>>

\* sops.lastmodified gets another timestamp
TamperLastModified ==
    /\ pc = "enc"
    /\ tree' = Map(SetSops(tree.items, [SopsOf(tree) EXCEPT !.lastmodified = "T0"]))
    /\ flags' = [flags EXCEPT !.tamper = "lastmodified"]
    /\ pc' = "tampered"
    /\ UNCHANGED <<doc0, key, ivctr, encRun, decRun, reRun, ring, keyRun, main, listRun>>

\* an envelope of the stored document is replaced by a value in the clear
TamperReplaceLeaf ==
    /\ pc = "enc"
    /\ \E p \in EnvPaths(tree), x \in {StrLeaf(T12), IntLeaf(12)} :
         /\ tree' = ReplaceAt(tree, p, x)
         /\ flags' = [flags EXCEPT !.tamper = "leaf", !.at = p]
    /\ pc' = "tampered"
    /\ UNCHANGED <<doc0, key, ivctr, encRun, decRun, reRun, ring, keyRun, main, listRun>>

\* the type tags an envelope may carry
TypeTags == {"str", "int", "float", "bool", "bytes"}

\* an envelope of the stored document gets another type tag
TamperLeafType ==
    /\ pc = "enc"
    /\ \E p \in EnvPaths(tree), ty \in TypeTags :
         /\ ty # NodeAt(tree, p).v[1].type
         /\ tree' = ReplaceAt(tree, p, StrLeaf(<<[NodeAt(tree, p).v[1] EXCEPT !.type = ty]>>))
         /\ flags' = [flags EXCEPT !.tamper = "type", !.at = p]
    /\ pc' = "tampered"
    /\ UNCHANGED <<doc0, key, ivctr, encRun, decRun, reRun, ring, keyRun, main, listRun>>

\* the envelopes of the first two elements of a list of the stored document
\* change places
TamperSwap ==
    /\ pc = "enc"
    /\ \E i \in 1..Len(tree.items) :
         /\ tree.items[i].v.t = "list"
         /\ Len(tree.items[i].v.items) >= 2
         /\ tree.items[i].v.items[1].t = "leaf"
         /\ tree.items[i].v.items[2].t = "leaf"
         /\ tree.items[i].v.items[1] # tree.items[i].v.items[2]
         /\ tree' = [tree EXCEPT !.items[i].v.items =
                                    <<@[2], @[1]>> \o SubSeq(@, 3, Len(@))]
         /\ flags' = [flags EXCEPT !.tamper = "swap", !.at = <<MKey(tree.items[i].k)>>]
    /\ pc' = "tampered"
    /\ UNCHANGED <<doc0, key, ivctr, encRun, decRun, reRun, ring, keyRun, main, listRun>>

\* decrypt mode (no stash) or the start of edit mode (stash):
\* INPUT_VERSION is the stored sops.version;
\* tree = walk_and_decrypt(tree, key, stash=stash, ignoreMac=args.ignore_mac)
Decrypt ==
    /\ pc \in {"plain", "enc", "tampered"}
    /\ \E ignoreMac \in BOOLEAN, useStash \in BOOLEAN :
         /\ decRun' = DecRun(walk_and_decrypt(tree, key,
                                               IF useStash THEN RootStash ELSE EmptyStash,
                                               ignoreMac, SopsOf(tree).version))
         /\ tree' = IF decRun'.err = "" THEN decRun'.tree ELSE tree
         /\ flags' = [flags EXCEPT !.ignoreMac = ignoreMac, !.stash = useStash]
         /\ pc' = IF pc = "plain" THEN "decplain" ELSE "dec"
    /\ UNCHANGED <<doc0, key, ivctr, encRun, reRun, ring, keyRun, main, listRun>>

\* the editor changes the value of one leaf of the decrypted document
EditLeaf ==
    /\ pc = "dec" /\ decRun.err = "" /\ flags.stash /\ flags.tamper = "none"
    /\ \E i \in 1..Len(LeafPaths(tree)) :
         LET p == LeafPaths(tree)[i]
         IN  \E x \in LeafValues \ {NodeAt(tree, p)} :
                /\ tree' = ReplaceAt(tree, p, x)
                /\ flags' = [flags EXCEPT !.edit = TRUE, !.editAt = p]
    /\ pc' = "edited"
    /\ UNCHANGED <<doc0, key, ivctr, encRun, decRun, reRun, ring, keyRun, main, listRun>>

\* the end of edit mode: tree = walk_and_encrypt(tree, key, stash=stash)
ReEncrypt ==
    /\ pc \in {"dec", "edited"} /\ decRun.err = "" /\ flags.stash /\ flags.tamper = "none"
    /\ reRun' = EncRun(walk_and_encrypt(tree, key, decRun.stash, NOW("edit"), ivctr), ivctr)
    /\ tree' = reRun'.tree
    /\ ivctr' = reRun'.iv
    /\ pc' = "reenc"
    /\ UNCHANGED <<doc0, key, encRun, decRun, flags, ring, keyRun, main, listRun>>

\* the editor appends a value to a list of the decrypted document
AppendElement ==
    /\ pc = "dec" /\ decRun.err = "" /\ flags.stash /\ flags.tamper = "none"
    /\ \E i \in 1..Len(tree.items), x \in LeafValues :
         /\ tree.items[i].v.t = "list"
         /\ tree' = [tree EXCEPT !.items[i].v.items = Append(@, x)]
         /\ flags' = [flags EXCEPT !.edit = TRUE,
                                   !.editAt = <<MKey(tree.items[i].k),
                                                IKey(Len(tree.items[i].v.items))>>]
    /\ pc' = "appended"
    /\ UNCHANGED <<doc0, key, ivctr, encRun, decRun, reRun, ring, keyRun, main, listRun>>

\* the end of edit mode after AppendElement:
\* tree = walk_and_encrypt(tree, key, stash=stash)
SaveAppended ==
    /\ pc = "appended"
    /\ listRun' = EncRun(walk_and_encrypt(tree, key, decRun.stash, NOW("edit"), ivctr), ivctr)
    /\ tree' = listRun'.tree
    /\ ivctr' = listRun'.iv
    /\ pc' = "reenc2"
    /\ UNCHANGED <<doc0, key, encRun, decRun, reRun, flags, ring, keyRun, main>>

\* the recipients a document may list, with what their provider does
KmsKinds ==
    {KmsEntry("arn", "none", TRUE, DataKey(1, 32), "ok"),
     KmsEntry("arn", "ok", TRUE, DataKey(2, 32), "ok"),
     KmsEntry("arn", "none", TRUE, DataKey(1, 32), "raise"),
     KmsEntry("arn", "fail", TRUE, DataKey(1, 32), "ok"),
     KmsEntry("", "none", TRUE, DataKey(1, 32), "ok"),
     KmsEntry("arn", "none", FALSE, None, "ok"),
     KmsEntry("arn", "none", FALSE, None, "raise"),
     KmsEntry("bad", "none", FALSE, None, "ok")}

PgpKinds ==
    {PgpEntry("fp", TRUE, DataKey(1, 32), "ok"),
     PgpEntry("fp", TRUE, DataKey(2, 32), "ok"),
     PgpEntry("fp", TRUE, DataKey(1, 16), "ok"),
     PgpEntry("fp", TRUE, DataKey(1, 32), "raise"),
     PgpEntry("fp", TRUE, DataKey(1, 32), "fail"),
     PgpEntry("fp", FALSE, None, "ok"),
     PgpEntry("fp", FALSE, None, "raise"),
     PgpEntry("fp", FALSE, None, "fail")}

MaxRecipients == 2

ListsOf(S) == UNION {[1..n -> S] : n \in 0..MaxRecipients}

\* a list of the tree's sops branch: absent, or a list of at most
\* MaxRecipients entries
ListOpts(S) ==
    {[has |-> TRUE, list |-> l] : l \in ListsOf(S)} \cup {[has |-> FALSE, list |-> <<>>]}

\* sops.kms and sops.pgp
Ring(k, p) == [haskms |-> k.has, kms |-> k.list, haspgp |-> p.has, pgp |-> p.list]

InitKey ==
    /\ pc = "key"
    /\ doc0 = Map(<<>>)
    /\ tree = doc0
    /\ key = 0
    /\ ivctr = 0
    /\ encRun = NoRun
    /\ decRun = NoRun
    /\ reRun = NoRun
    /\ listRun = NoRun
    /\ flags = NoFlags
    /\ \E k \in ListOpts(KmsKinds), p \in ListOpts(PgpKinds) : ring = Ring(k, p)
    /\ keyRun = NoKeyRun
    /\ main = NoMain

\* what a run of get_key left
KeyRun(mode, r, sops) ==
    [mode |-> mode, status |-> r.status, key |-> r.key, ring0 |-> sops, calls |-> r.calls]

\* key, tree = get_key(tree, need_key) with need_key false
GetKey ==
    /\ pc = "key" \/ (pc = "wrapped" /\ keyRun.status = "ok")
    /\ keyRun' = KeyRun("unwrap", get_key_unwrap(ring), ring)
    /\ pc' = "unwrapped"
    /\ UNCHANGED <<doc0, tree, key, ivctr, encRun, decRun, reRun, flags, ring, main, listRun>>

\* the lists of the tree after get_key(tree, need_key=True)
RingAfter(sops, r) == [sops EXCEPT !.kms = r.kms, !.pgp = r.pgp]

\* key, tree = get_key(tree, need_key) with need_key true
NewKey ==
    /\ pc = "key"
    /\ keyRun' = KeyRun("wrap", get_key_wrap(ring, DataKey(NewKeyId, 32)), ring)
    /\ ring' = RingAfter(ring, get_key_wrap(ring, DataKey(NewKeyId, 32)))
    /\ pc' = "wrapped"
    /\ UNCHANGED <<doc0, tree, key, ivctr, encRun, decRun, reRun, flags, main, listRun>>

NextKey ==
    \/ GetKey
    \/ NewKey

SpecKey == InitKey /\ [][NextKey]_vars

Next ==
    \/ Encrypt
    \/ TamperLeafField
    \/ TamperMac
    \/ TamperLastModified
    \/ TamperReplaceLeaf
    \/ TamperLeafType
    \/ TamperSwap
    \/ Decrypt
    \/ EditLeaf
    \/ ReEncrypt
    \/ AppendElement
    \/ SaveAppended

Spec == Init /\ [][Next]_vars

----------------------------------------------------------------------------
(* main(): encrypt mode, decrypt mode and edit mode on an existing file of  *)
(* a structured type (yaml or json)                                         *)

\* json.dumps raises TypeError on a bytes value; the yaml dumper writes it
HasBytes(t) == \E i \in 1..Len(Leaves(t)) : Leaves(t)[i].ty = "bytes"

\* write_file(tree, path, filetype): open(path, "wb") empties the file, then
\* the whole serialised tree is written by one fd.write, unless the
\* serialiser raised
write_file(t, sops, otype) ==
    IF otype = "json" /\ HasBytes(t)
    THEN [state |-> "empty", tree |-> Map(<<>>), ring |-> NoRing]
    ELSE [state |-> "written", tree |-> t, ring |-> sops]

\* the exit of a run that ended in write_file
write_exit(f) == IF f.state = "written" THEN "0" ELSE "TypeError"

\* main goes on to write_file whatever the walk did;
\* C16_WriteAfterWalk tells it from reaches_write
reaches_write_always(err) == TRUE

\* the statements after a walk are reached only when the walk returned: an
\* exception or a panic (sys.exit) inside it ends main
reaches_write(err) == err = ""

\* the stored file of a run: a document in the clear that carries a sops
\* branch, or what an encrypt under the data key 1 wrote, as written, with
\* its mac removed, or with its first leaf replaced by a value in the clear
MainLeaves == {StrLeaf(T12), BytesLeaf(<<Ch("xFF")>>)}

MainPlain == {Shape(1, StrLeaf(T12), y, ver) : y \in MainLeaves, ver \in {8, VERSION}}

StoredOf(r) ==
    {[doc |-> r.tree, iv |-> r.iv],
     [doc |-> Map(SetSops(r.tree.items, [SopsOf(r.tree) EXCEPT !.hasmac = FALSE])), iv |-> r.iv],
     [doc |-> ReplaceAt(r.tree, <<MKey("a")>>, StrLeaf(<<Ch("x")>>)), iv |-> r.iv]}

Stored ==
    {[doc |-> d, iv |-> 0] : d \in MainPlain}
    \cup UNION {StoredOf(walk_and_encrypt(d, 1, EmptyStash, "T0", 0)) : d \in MainPlain}

\* the recipients of the stored file, and the keys named by -k / -p or the
\* environment (one key each)
MainKms ==
    {KmsEntry("arn", "none", TRUE, DataKey(1, 32), "ok"),
     KmsEntry("arn", "none", TRUE, DataKey(2, 32), "ok"),
     KmsEntry("arn", "none", TRUE, None, "ok"),
     KmsEntry("arn", "fail", TRUE, DataKey(1, 32), "ok"),
     KmsEntry("arn", "none", FALSE, None, "raise")}

\* sops.pgp of the stored file: absent, empty, or one entry
OneOpts(S) ==
    {[has |-> TRUE, list |-> <<e>>] : e \in S}
    \cup {[has |-> TRUE, list |-> <<>>], [has |-> FALSE, list |-> <<>>]}

MainPgp ==
    {PgpEntry("fp", TRUE, DataKey(1, 32), "ok"),
     PgpEntry("fp", TRUE, None, "fail"),
     PgpEntry("", TRUE, DataKey(1, 32), "ok")}

KmsArgs == {KmsEntry("", "none", FALSE, None, "ok"), KmsEntry("arn", "none", FALSE, None, "ok")}

PgpArgs == {PgpEntry("", FALSE, None, "ok"), PgpEntry("fp", FALSE, None, "fail")}

OutputTypes == {"yaml", "json"}

\* the editor loop is followed for at most MaxRounds runs of the editor
MaxRounds == 2

InitMain ==
    /\ pc = "main"
    /\ \E s \in Stored : doc0 = s.doc /\ ivctr = s.iv
    /\ tree = doc0
    /\ key = 0
    /\ encRun = NoRun
    /\ decRun = NoRun
    /\ reRun = NoRun
    /\ listRun = NoRun
    /\ flags = NoFlags
    /\ \E k \in ListOpts(MainKms), p \in OneOpts(MainPgp) : ring = Ring(k, p)
    /\ keyRun = NoKeyRun
    /\ main = [NoMain EXCEPT !.stored = [state |-> "written", tree |-> doc0, ring |-> ring]]

\* main after initialize_tree: `if args.rotate: need_key = True`
MainStarted(m, rotate, r) ==
    [m EXCEPT !.rotate = rotate, !.need_key = r.need_key \/ rotate, !.exit = r.err]

\* tree, need_key, existing_file = initialize_tree(..); if args.rotate ..
InitializeTree ==
    /\ pc = "main"
    /\ \E rotate \in BOOLEAN, kmsarg \in KmsArgs, pgparg \in PgpArgs :
         /\ main' = MainStarted(main, rotate,
                                verify_or_create_sops_branch(ring, kmsarg, pgparg))
         /\ ring' = verify_or_create_sops_branch(ring, kmsarg, pgparg).sops
    /\ pc' = IF main'.exit = "" THEN "init" ELSE "exit"
    /\ UNCHANGED <<doc0, tree, key, ivctr, encRun, decRun, reRun, flags, keyRun, listRun>>

\* key, tree = get_key(tree, need_key); decrypt mode calls get_key(tree)
MainGetKey ==
    /\ pc = "init"
    /\ \E mode \in {"encrypt", "decrypt", "edit"}, otype \in OutputTypes :
         LET need == mode # "decrypt" /\ main.need_key
         IN  /\ keyRun' = IF need
                          THEN KeyRun("wrap", get_key_wrap(ring, DataKey(NewKeyId, 32)), ring)
                          ELSE KeyRun("unwrap", get_key_unwrap(ring), ring)
             /\ ring' = IF need THEN RingAfter(ring, get_key_wrap(ring, DataKey(NewKeyId, 32)))
                        ELSE ring
             /\ main' = [main EXCEPT !.mode = mode, !.otype = otype,
                                     !.exit = IF keyRun'.status = "ok" THEN "" ELSE keyRun'.status]
    /\ key' = keyRun'.key.id
    /\ pc' = IF keyRun'.status = "ok" THEN "haskey" ELSE "exit"
    /\ UNCHANGED <<doc0, tree, ivctr, encRun, decRun, reRun, flags, listRun>>

\* encrypt mode: tree = walk_and_encrypt(tree, key); write_file(tree, ..)
EncryptMode ==
    /\ pc = "haskey" /\ main.mode = "encrypt"
    /\ encRun' = EncRun(walk_and_encrypt(tree, key, EmptyStash, NOW("encrypt"), ivctr), ivctr)
    /\ tree' = encRun'.tree
    /\ ivctr' = encRun'.iv
    /\ main' = [main EXCEPT !.dest = write_file(tree', ring, main.otype),
                            !.exit = write_exit(write_file(tree', ring, main.otype))]
    /\ pc' = "exit"
    /\ UNCHANGED <<doc0, key, decRun, reRun, flags, ring, keyRun, listRun>>

\* main after walk_and_decrypt in decrypt mode: tree.pop('sops', None) and
\* write_file when the walk returned
MainDecrypted(m, ignoreMac, err, t) ==
    IF reaches_write(err)
    THEN [m EXCEPT !.ignoreMac = ignoreMac,
                   !.dest = write_file(StripSops(t), NoRing, m.otype),
                   !.exit = write_exit(write_file(StripSops(t), NoRing, m.otype))]
    ELSE [m EXCEPT !.ignoreMac = ignoreMac, !.exit = err]

\* decrypt mode: tree = walk_and_decrypt(tree, key, ignoreMac=..);
\* write_file(tree, ..)
DecryptMode ==
    /\ pc = "haskey" /\ main.mode = "decrypt"
    /\ \E ignoreMac \in BOOLEAN :
         /\ decRun' = DecRun(walk_and_decrypt(tree, key, EmptyStash, ignoreMac,
                                               SopsOf(tree).version))
         /\ main' = MainDecrypted(main, ignoreMac, decRun'.err, decRun'.tree)
    /\ tree' = decRun'.tree
    /\ pc' = "exit"
    /\ UNCHANGED <<doc0, key, ivctr, encRun, reRun, flags, ring, keyRun, listRun>>

\* main after walk_and_decrypt in edit mode: the temp file is written
MainOpened(m, ignoreMac, show, err, t, sops) ==
    IF reaches_write(err)
    THEN [m EXCEPT !.ignoreMac = ignoreMac, !.show = show,
                   !.tmp = write_file(t, sops, m.otype),
                   !.exit = IF write_file(t, sops, m.otype).state = "written" THEN ""
                            ELSE "TypeError"]
    ELSE [m EXCEPT !.ignoreMac = ignoreMac, !.show = show, !.exit = err]

\* edit mode up to the editor loop: the stash, walk_and_decrypt with the
\* stash, the temp file
EditOpen ==
    /\ pc = "haskey" /\ main.mode = "edit"
    /\ \E ignoreMac \in BOOLEAN, show \in BOOLEAN :
         /\ decRun' = DecRun(walk_and_decrypt(tree, key, RootStash, ignoreMac,
                                               SopsOf(tree).version))
         /\ main' = MainOpened(main, ignoreMac, show, decRun'.err, decRun'.tree, ring)
    /\ tree' = decRun'.tree
    /\ pc' = IF main'.exit = "" THEN "editor" ELSE "exit"
    /\ UNCHANGED <<doc0, key, ivctr, encRun, reRun, flags, ring, keyRun, listRun>>

\* what the user may leave in the temp file: the file as it was, a leaf
\* changed, text the codec rejects, and, when the sops branch is shown, a
\* recipient added or every recipient removed
EditorWrites(f, show) ==
    {f,
     [f EXCEPT !.state = "edited", !.tree = ReplaceAt(@, <<MKey("a")>>, StrLeaf(<<Ch("n")>>))],
     [f EXCEPT !.state = "broken"]}
    \cup (IF show
          THEN {[f EXCEPT !.state = "edited", !.ring.haskms = TRUE,
                          !.ring.kms = Append(@, KmsEntry("arn", "none", FALSE, None, "ok"))],
                [f EXCEPT !.state = "edited", !.ring.kms = <<>>, !.ring.pgp = <<>>]}
          ELSE {})

\* run_editor(tmppath)
RunEditor ==
    /\ pc = "editor" /\ main.rounds < MaxRounds
    /\ \E f \in EditorWrites(main.tmp, main.show) :
         main' = [main EXCEPT !.tmp = f, !.rounds = @ + 1]
    /\ pc' = "check"
    /\ UNCHANGED <<doc0, tree, key, ivctr, encRun, decRun, reRun, flags, ring, keyRun, listRun>>

\* the rest of an iteration of the editor loop. validate_syntax raises on
\* text the codec rejects: the error is printed and raw_input() waits; ack is
\* the user pressing a key, ~ack is ctrl+c.  load_file_into_tree then parses
\* the same file outside the try; the sops branch comes from the file, or from
\* the stash when it was hidden.  check_master_keys decides has_master_keys.
EditorCheck ==
    /\ pc = "check"
    /\ \E ack \in BOOLEAN :
         IF main.tmp.state = "broken"
         THEN /\ main' = IF ack THEN [main EXCEPT !.exit = "ParseError", !.acks = @ + 1]
                         ELSE [main EXCEPT !.exit = "panic85", !.tmp.state = "removed"]
              /\ pc' = "exit"
              /\ UNCHANGED <<tree, ring>>
         ELSE /\ tree' = main.tmp.tree
              /\ ring' = main.tmp.ring
              /\ IF check_master_keys(main.tmp.ring)
                 THEN /\ main' = [main EXCEPT !.valid_syntax = TRUE, !.has_master_keys = TRUE]
                      /\ pc' = "save"
                 ELSE IF ack
                 THEN /\ main' = [main EXCEPT !.valid_syntax = TRUE, !.acks = @ + 1]
                      /\ pc' = "editor"
                 ELSE /\ main' = [main EXCEPT !.valid_syntax = TRUE, !.exit = "panic85",
                                              !.tmp.state = "removed"]
                      /\ pc' = "exit"
    /\ UNCHANGED <<doc0, key, ivctr, encRun, decRun, reRun, flags, keyRun, listRun>>

\* update_master_keys(tree, key) on the version of the tree's sops branch
umk_tree(t) == Map(SetSops(t.items, [SopsOf(t) EXCEPT !.version = umk_version(@)]))

\* the end of edit mode: nothing is written when the temp file's stat did
\* not change; else walk_and_encrypt with the stash, update_master_keys,
\* write_file
EditSave ==
    /\ pc = "save"
    /\ IF main.tmp.state = "written"
       THEN /\ main' = [main EXCEPT !.exit = "panic200", !.tmp.state = "removed"]
            /\ UNCHANGED <<tree, ivctr, reRun, ring>>
       ELSE /\ reRun' = EncRun(walk_and_encrypt(tree, key, decRun.stash, NOW("edit"), ivctr),
                               ivctr)
            /\ tree' = umk_tree(reRun'.tree)
            /\ ivctr' = reRun'.iv
            /\ ring' = update_master_keys(ring, keyRun.key)
            /\ main' = [main EXCEPT !.tmp.state = "removed",
                                    !.dest = write_file(tree', ring', main.otype),
                                    !.exit = write_exit(write_file(tree', ring', main.otype))]
    /\ pc' = "exit"
    /\ UNCHANGED <<doc0, key, encRun, decRun, flags, keyRun, listRun>>

NextMain ==
    \/ InitializeTree
    \/ MainGetKey
    \/ EncryptMode
    \/ DecryptMode
    \/ EditOpen
    \/ RunEditor
    \/ EditorCheck
    \/ EditSave

SpecMain == InitMain /\ [][NextMain]_vars

----------------------------------------------------------------------------
(* Properties of the encrypt / decrypt runs                                 *)

\* the document was written at the current format version
CurrentFormat == SopsOf(doc0).version = VERSION

\* a decrypt run has ended on the stored document
Decrypted == pc \in {"dec", "decplain"}

\* a decrypt run has ended on the document as walk_and_encrypt left it
RoundTripped == pc = "dec" /\ flags.tamper = "none" /\ CurrentFormat

\* C1: decrypting what walk_and_encrypt made of a document, under the same
\* key and at the current format version, succeeds and returns the document:
\* the same keys in the same order, the same list shapes, every leaf equal in
\* value and in type (the sops branch apart).
C1_RoundTrip ==
    RoundTripped => decRun.err = "" /\ StripSops(decRun.tree) = StripSops(doc0)

\* C2: after a change of the data, iv or tag of a leaf envelope, of sops.mac
\* or of sops.lastmodified in the stored document, a decrypt run that does
\* not ignore the MAC fails instead of returning a tree.
C2_TamperDetected ==
    (/\ pc = "dec"
     /\ flags.tamper \in {"data", "iv", "tag", "mac", "lastmodified"}
     /\ ~flags.ignoreMac
     /\ CurrentFormat)
    => decRun.err # ""

\* C3: the digest covers exactly the cleartext bytes of the leaves, in
\* traversal order, in both walks: walk_and_encrypt absorbs the bytes of all
\* leaves of its input, and a walk_and_decrypt that compares its digest with
\* sops.mac and returns a tree has absorbed the bytes of all leaves of that
\* tree.
C3_DigestCoversLeaves ==
    /\ pc = "enc" => encRun.fed = LeafBytes(doc0)
    /\ (Decrypted /\ ~flags.ignoreMac /\ decRun.err = "")
       => decRun.fed = LeafBytes(decRun.tree)

\* C4: decrypting an encrypted document with a stash and encrypting the
\* unmodified result with that stash gives every leaf the envelope it had.
C4_StashIdempotent ==
    (pc = "reenc" /\ ~flags.edit /\ CurrentFormat)
    => \A i \in 1..Len(LeafPaths(doc0)) :
          NodeAt(reRun.tree, LeafPaths(doc0)[i]) = NodeAt(encRun.tree, LeafPaths(doc0)[i])

\* the envelope of the leaf at path p in a stored document
EnvAt(root, p) == NodeAt(root, p).v[1]

\* C5: after a decrypt with a stash, changing the value of one leaf and
\* encrypting with the stash gives that leaf an envelope with a freshly
\* generated IV and other data, iv and tag, and leaves the envelope of every
\* other leaf as it was.
C5_EditOneLeaf ==
    (pc = "reenc" /\ flags.edit /\ CurrentFormat)
    => \A i \in 1..Len(LeafPaths(doc0)) :
          IF LeafPaths(doc0)[i] = flags.editAt
          THEN /\ EnvAt(reRun.tree, flags.editAt).iv.raw.id > reRun.iv0
               /\ EnvAt(reRun.tree, flags.editAt).data # EnvAt(encRun.tree, flags.editAt).data
               /\ EnvAt(reRun.tree, flags.editAt).iv # EnvAt(encRun.tree, flags.editAt).iv
               /\ EnvAt(reRun.tree, flags.editAt).tag # EnvAt(encRun.tree, flags.editAt).tag
          ELSE NodeAt(reRun.tree, LeafPaths(doc0)[i]) = NodeAt(encRun.tree, LeafPaths(doc0)[i])

RECURSIVE PathAad(_)
\* k1 ':' k2 ':' ... kn ':' over the mapping keys of a path; a list index
\* adds nothing
PathAad(path) ==
    IF path = <<>> THEN ""
    ELSE (IF "m" \in DOMAIN path[1] THEN path[1].m \o ":" ELSE "") \o PathAad(Tail(path))

\* every AAD a run handed to encrypt / decrypt is the key path of its leaf
AadsFollowPaths(run) ==
    \A i \in 1..Len(run.aads) : run.aads[i].aad = PathAad(run.aads[i].path)

\* the leaves a run visited, in order
VisitedPaths(run) == [i \in 1..Len(run.aads) |-> run.aads[i].path]

\* C6: at format version >= 0.9 the AAD of a leaf is k1 ':' k2 ':' ... kn ':'
\* over the mapping keys of its path, list indices adding nothing, in
\* walk_and_encrypt (every leaf of the document is visited) and in
\* walk_and_decrypt; a decrypt of what walk_and_encrypt wrote uses, leaf by
\* leaf, the AADs walk_and_encrypt used.
C6_AadIsKeyPath ==
    /\ encRun.err = "" => AadsFollowPaths(encRun) /\ VisitedPaths(encRun) = LeafPaths(doc0)
    /\ reRun.err = "" => AadsFollowPaths(reRun) /\ VisitedPaths(reRun) = LeafPaths(doc0)
    /\ CurrentFormat => AadsFollowPaths(decRun)
    /\ (RoundTripped /\ decRun.err = "") => decRun.aads = encRun.aads

\* C6 witness: a run over {outer: {inner: [1, "two", {deep: false}]}}: the
\* list elements under outer.inner are decrypted under "outer:inner:"
C6_Witness ==
    /\ RoundTripped /\ decRun.err = "" /\ doc0 = NestedDoc(VERSION)
    /\ Len(decRun.aads) = 3
    /\ decRun.aads[1].aad = "outer:inner:"
    /\ decRun.aads[2].aad = "outer:inner:"
    /\ decRun.aads[3].aad = "outer:inner:deep:"

RECURSIVE PathKeys(_)
\* the mapping keys of a path, concatenated
PathKeys(path) ==
    IF path = <<>> THEN ""
    ELSE (IF "m" \in DOMAIN path[1] THEN path[1].m ELSE "") \o PathKeys(Tail(path))

\* the keys of the first n entries of a mapping, concatenated, the root's
\* sops entry left out
KeysThrough(items, n, isRoot) ==
    LET F[j \in 0..n] ==
            IF j = 0 THEN ""
            ELSE IF items[j].k = "sops" /\ isRoot THEN F[j - 1]
            ELSE F[j - 1] \o items[j].k
    IN  F[n]

RECURSIVE LegacyAad(_, _, _, _)
\* at every mapping on the path, the keys of the entries from the first one
\* to the path's own, concatenated; the levels concatenated from the root down
LegacyAad(node, path, aad, isRoot) ==
    IF path = <<>> THEN aad
    ELSE IF node.t = "list"
    THEN LegacyAad(node.items[StepIndex(node, path[1])], Tail(path), aad, FALSE)
    ELSE LegacyAad(node.items[StepIndex(node, path[1])].v, Tail(path),
                   aad \o KeysThrough(node.items, StepIndex(node, path[1]), isRoot), FALSE)

\* C7 (as stated): at an input format version < 0.9 the AAD walk_and_decrypt
\* uses for a leaf is the concatenation of the mapping keys on the leaf's
\* path, whatever the other keys of the document.
C7_LegacyAadIsPath ==
    SopsOf(doc0).version < 9
    => \A i \in 1..Len(decRun.aads) : decRun.aads[i].aad = PathKeys(decRun.aads[i].path)

\* C7 (amended): at an input format version < 0.9 the AAD walk_and_decrypt
\* uses for a leaf is, for every mapping on the leaf's path from the root
\* down, the concatenation of the keys of that mapping's entries from its
\* first entry to the one on the path (the root's sops entry left out): the
\* keys of the earlier siblings are part of it.
C7_LegacyAad ==
    SopsOf(doc0).version < 9
    => \A i \in 1..Len(decRun.aads) :
          decRun.aads[i].aad = LegacyAad(doc0, decRun.aads[i].path, "", TRUE)

\* C7 witness: a pre-0.9 document {a, sops, b} whose leaf b was decrypted
\* under "ab"
C7_Witness ==
    /\ SopsOf(doc0).version < 9
    /\ \E i \in 1..Len(decRun.aads) :
          decRun.aads[i].path = <<MKey("b")>> /\ decRun.aads[i].aad = "ab"

\* the digest over the cleartexts a decrypt run decrypted differs from the
\* digest that sops.mac holds
MacMismatch ==
    /\ SopsOf(tree).hasmac
    /\ SopsOf(tree).haslm
    /\ LET m == decrypt(SopsOf(tree).mac, key, SopsOf(tree).lastmodified, EmptyStash,
                        NoDigest, SopsOf(tree).version)
       IN  m.err = "" /\ m.value # HexDigest([on |-> TRUE, fed |-> decRun.clear])

\* C8 (as stated): whatever the flags, a decrypt run whose recomputed digest
\* differs from the one stored in sops.mac fails and returns no tree.
C8_MismatchAlwaysFatal ==
    (Decrypted /\ MacMismatch) => decRun.err # ""

\* C8 (amended): a decrypt run without --ignore-mac whose recomputed digest
\* differs from the one stored in sops.mac fails and returns no tree; with
\* --ignore-mac the digest is neither computed nor compared.
C8_MismatchFatalUnlessIgnored ==
    /\ (Decrypted /\ ~flags.ignoreMac /\ MacMismatch) => decRun.err # ""
    /\ (Decrypted /\ flags.ignoreMac) => decRun.fed = <<>> /\ decRun.err # "panic51"

\* C8 witness: a run without --ignore-mac ended on the checksum failure
\* (exit 51)
C8_Witness ==
    Decrypted /\ ~flags.ignoreMac /\ MacMismatch /\ decRun.err = "panic51"

----------------------------------------------------------------------------
(* Properties of get_key                                                    *)

\* the provider of a sops.kms entry returns a data key
KmsUsable(e) ==
    /\ e.hasenc /\ e.enc.id # 0
    /\ e.arn = "arn" /\ e.role \in {"none", "ok"}
    /\ e.env = "ok"

\* gpg returns the 32 bytes of a data key for a sops.pgp entry
PgpUsable(e) == e.hasenc /\ e.enc.id # 0 /\ e.env = "ok" /\ e.enc.len = 32

\* the recipients in list order, KMS entries first: whether each one's
\* provider succeeds, and the data key it holds
Recipients(sops) ==
    [i \in 1..Len(sops.kms) |-> [ok |-> KmsUsable(sops.kms[i]), key |-> sops.kms[i].enc]]
    \o [i \in 1..Len(sops.pgp) |-> [ok |-> PgpUsable(sops.pgp[i]), key |-> sops.pgp[i].enc]]

\* the recipients whose provider get_key called, as positions of Recipients
CalledAt(run) ==
    [i \in 1..Len(run.calls) |->
        IF run.calls[i][1] = "kms" THEN run.calls[i][2] + 1
        ELSE Len(run.ring0.kms) + run.calls[i][2] + 1]

\* C9: get_key with need_key false calls the providers in list order, KMS
\* entries before PGP entries, and returns the data key of the first recipient
\* whose provider succeeds; a provider error skips that recipient only; the
\* run ends with exit 128 exactly when no recipient's provider succeeds.
C9_UnwrapFallback ==
    keyRun.mode = "unwrap"
    => /\ \A i \in 1..Len(keyRun.calls) - 1 : CalledAt(keyRun)[i] < CalledAt(keyRun)[i + 1]
       /\ IF \E i \in 1..Len(Recipients(keyRun.ring0)) : Recipients(keyRun.ring0)[i].ok
          THEN /\ keyRun.status = "ok"
               /\ \E i \in 1..Len(Recipients(keyRun.ring0)) :
                     /\ Recipients(keyRun.ring0)[i].ok
                     /\ \A j \in 1..(i - 1) : ~Recipients(keyRun.ring0)[j].ok
                     /\ keyRun.key = Recipients(keyRun.ring0)[i].key
                     /\ CalledAt(keyRun)[Len(keyRun.calls)] = i
          ELSE keyRun.status = "exit128" /\ keyRun.key = None

\* C9 witness: the first KMS entry's provider raised, the second one's
\* returned the key
C9_Witness ==
    /\ keyRun.mode = "unwrap" /\ keyRun.status = "ok" /\ keyRun.key = DataKey(2, 32)
    /\ keyRun.calls = << <<"kms", 0>>, <<"kms", 1>> >>
    /\ keyRun.ring0.kms[1].env = "raise"

\* the provider of an entry would wrap a new data key
KmsWraps(e) == e.arn = "arn" /\ e.role \in {"none", "ok"} /\ e.env = "ok"
PgpWraps(e) == e.fp = "fp" /\ e.env = "ok"

\* some recipient of the lists can be wrapped for
SomeWraps(sops) ==
    \/ \E i \in 1..Len(sops.kms) : KmsWraps(sops.kms[i])
    \/ \E i \in 1..Len(sops.pgp) : PgpWraps(sops.pgp[i])

\* C10: get_key with need_key true is not aborted by the failure of one
\* recipient's provider: it ends by returning the key or with exit 37, it
\* returns the key when a recipient's provider wraps it, and it ends with
\* exit 37 only when no recipient's provider does.
C10_WrapPerRecipient ==
    keyRun.mode = "wrap"
    => /\ keyRun.status \in {"ok", "exit37"}
       /\ SomeWraps(keyRun.ring0) => keyRun.status = "ok" /\ keyRun.key = DataKey(NewKeyId, 32)
       /\ keyRun.status = "exit37" => ~SomeWraps(keyRun.ring0)


\* C14: walk_and_decrypt on a tree whose leaves are all in the clear (str,
\* int, bool, bytes, none of them an envelope) completes and returns every
\* leaf unchanged; the MAC check is switched off, the tree has no mac
C14_CleartextUnchanged ==
    (pc = "decplain" /\ flags.ignoreMac)
        => decRun.err = "" /\ StripSops(decRun.tree) = StripSops(doc0)

\* the cleartext bytes the encoding rules give a leaf: UTF-8 of a str,
\* 'true' / 'false' for a bool, decimal ASCII for an int, the bytes of bytes
RuleBytes(leaf) ==
    IF leaf.ty = "bool"
    THEN (IF leaf.n = 1 THEN <<Ch("t"), Ch("r"), Ch("u"), Ch("e")>>
          ELSE <<Ch("f"), Ch("a"), Ch("l"), Ch("s"), Ch("e")>>)
    ELSE IF leaf.ty = "int" THEN DecStr(leaf.n)
    ELSE IF leaf.ty = "float" THEN FloatStr(leaf.n)
    ELSE leaf.v

\* C15: encrypt gives every leaf the type tag of its Python type (a bool is
\* tagged bool, never int) and the bytes of the encoding rules (a bool is
\* the lower-case 'true' or 'false'); these bytes are what the envelope's
\* data encrypts and what the digest absorbs
C15_EncodingRules ==
    pc = "enc" =>
        /\ \A i \in 1..Len(LeafPaths(doc0)) :
              /\ NodeAt(encRun.tree, LeafPaths(doc0)[i]).v[1].type = Leaves(doc0)[i].ty
              /\ b64decode(NodeAt(encRun.tree, LeafPaths(doc0)[i]).v[1].data)
                    = GcmCt(key, b64decode(NodeAt(encRun.tree, LeafPaths(doc0)[i]).v[1].iv),
                            RuleBytes(Leaves(doc0)[i]))
        /\ encRun.fed = Concat([i \in 1..Len(Leaves(doc0)) |-> RuleBytes(Leaves(doc0)[i])])

\* the IVs of the envelopes of a document, leaf by leaf
LeafIvs(t) == [i \in 1..Len(LeafPaths(t)) |-> EnvAt(t, LeafPaths(t)[i]).iv]

\* no two leaves of a document carry the same IV
IvsDistinct(t) ==
    \A i, j \in 1..Len(LeafIvs(t)) : i # j => LeafIvs(t)[i] # LeafIvs(t)[j]

\* C18: in an encrypt with a stash a leaf takes a stashed IV only from the
\* stash entry of its own path: a list element added beyond the stashed
\* list's length gets a freshly generated IV, and no IV is carried by two
\* leaves of the output
C18_StashIvOwnPath ==
    /\ (pc = "reenc" /\ CurrentFormat) => IvsDistinct(reRun.tree)
    /\ (pc = "reenc2" /\ CurrentFormat)
         => /\ EnvAt(listRun.tree, flags.editAt).iv.raw.id > listRun.iv0
            /\ IvsDistinct(listRun.tree)

\* C19: after a change of the non-sops part of what walk_and_encrypt wrote
\* (an envelope's type tag changed, two elements of a list exchanged, an
\* envelope replaced by a value in the clear), a decrypt run that checks the
\* MAC fails or returns the document that was encrypted
C19_StructureAuthenticated ==
    (/\ pc = "dec"
     /\ flags.tamper \in {"type", "swap", "leaf"}
     /\ ~flags.ignoreMac
     /\ CurrentFormat)
    => (decRun.err # "" \/ StripSops(decRun.tree) = StripSops(doc0))

----------------------------------------------------------------------------
(* Properties of main()                                                     *)

\* a run of main that encrypted and wrote the destination
WroteEncrypted ==
    /\ pc = "exit" /\ main.exit = "0"
    /\ main.mode \in {"encrypt", "edit"}
    /\ main.dest.state = "written"

\* `enc` is present and not the empty string
HoldsEnc(e) == e.hasenc /\ e.enc.id # 0

\* C11: after a successful encrypt run (encrypt mode or edit mode) every
\* entry of sops.kms with a non-empty arn and every entry of sops.pgp with a
\* non-empty fp in the written document is still an entry and holds a
\* non-empty enc
C11_RecipientsHoldEnc ==
    WroteEncrypted =>
        /\ \A i \in 1..Len(main.dest.ring.kms) :
              /\ main.dest.ring.kms[i] # KmsNone
              /\ (main.dest.ring.kms[i].arn \notin {"none", ""}
                    => HoldsEnc(main.dest.ring.kms[i]))
        /\ \A i \in 1..Len(main.dest.ring.pgp) :
              /\ main.dest.ring.pgp[i] # PgpNone
              /\ (main.dest.ring.pgp[i].fp \notin {"none", ""}
                    => HoldsEnc(main.dest.ring.pgp[i]))

\* the entries of both lists of a sops branch
Entries(sops) == {sops.kms[i] : i \in 1..Len(sops.kms)} \cup {sops.pgp[i] : i \in 1..Len(sops.pgp)}

\* get_key has just returned a fresh key in a run with --rotate
Rotated ==
    /\ pc = "haskey" /\ main.rotate
    /\ keyRun.mode = "wrap" /\ keyRun.status = "ok"

\* C12: when rotation is requested and get_key returns, every non-empty enc
\* of the tree is a wrap of the fresh data key, and at least one recipient
\* holds such a wrap
C12_RotationRewraps ==
    Rotated =>
        /\ \A e \in Entries(ring) : HoldsEnc(e) => e.enc = keyRun.key
        /\ \E e \in Entries(ring) : HoldsEnc(e) /\ e.enc = keyRun.key

\* C13: a successful encrypt run (encrypt mode or edit mode) on a document
\* whose sops.version was lower than VERSION writes sops.version = VERSION
C13_VersionUpgraded ==
    (WroteEncrypted /\ SopsOf(doc0).version < VERSION)
        => SopsOf(main.dest.tree).version = VERSION

\* every leaf of a document is an envelope
AllEnv(t) == \A i \in 1..Len(Leaves(t)) : IsEnvLeaf(Leaves(t)[i])

\* the exits of a walk on a leaf that does not authenticate, a missing mac
\* and a digest mismatch
WalkFailures == {"InvalidTag", "panic52", "panic51"}

\* the digest in the stored sops.mac is the digest over the cleartexts that
\* the walk now ending decrypted
MacPassed ==
    /\ SopsOf(tree).hasmac
    /\ decrypt(SopsOf(tree).mac, key, SopsOf(tree).lastmodified, EmptyStash, NoDigest,
               SopsOf(tree).version).value = HexDigest([on |-> TRUE, fed |-> decRun'.clear])

\* a step of main that changes the destination file
WritesDest ==
    \/ /\ main.mode = "encrypt"
       /\ encRun'.err = ""
       /\ main'.dest.state = "written" => main'.dest.tree = encRun'.tree /\ AllEnv(encRun'.tree)
    \/ /\ main.mode = "decrypt"
       /\ decRun'.err = ""
       /\ ~main'.ignoreMac => MacPassed
       /\ main'.dest.state = "written" => main'.dest.tree = StripSops(decRun'.tree)
    \/ /\ main.mode = "edit"
       /\ decRun.err = "" /\ reRun'.err = ""
       /\ main'.dest.state = "written" => AllEnv(main'.dest.tree)

\* C16: in every run of main the destination file changes only in a step in
\* which the walk of the mode has returned over the whole tree and, in
\* decrypt mode without ignoreMac, the MAC check has passed; a run ended by a
\* leaf that does not authenticate, a missing mac or a digest mismatch leaves
\* the destination untouched
C16_WriteAfterWalk ==
    [][/\ main'.dest # main.dest => WritesDest
       /\ main'.exit \in WalkFailures => main'.dest = NoFile]_vars

\* C16 witness: decrypt mode wrote the destination after a MAC check
C16_Witness ==
    /\ pc = "exit" /\ main.mode = "decrypt" /\ ~main.ignoreMac
    /\ main.exit = "0" /\ main.dest.state = "written"
    /\ decRun.clear # <<>>

\* C17: in edit mode, when the codec rejects the temp file and the user
\* acknowledges the error, the editor is run again and the session goes on;
\* the loop is left toward encryption only with a file that parses and a
\* master key
C17_SyntaxErrorRetries ==
    [][/\ (pc = "check" /\ main.tmp.state = "broken" /\ main'.acks > main.acks)
            => (pc' = "editor" /\ main'.exit = "")
       /\ pc' = "save"
            => (main.tmp.state # "broken" /\ main'.valid_syntax /\ main'.has_master_keys)]_vars

============================================================================
